---- MODULE Spec2Model ----
(***************************************************************************)
(* Model of SumTube's App.py: the URL parser extract_youtube_id, the       *)
(* transcript fetcher fetch_youtube_transcript, the summarizer             *)
(* summarize_transcript_with_gemini and the request handler get_summary.   *)
(*                                                                         *)
(* A Python str is a sequence of one-character strings, so that `in`,      *)
(* split, rstrip, strip and join are computed character by character.      *)
(***************************************************************************)
EXTENDS Integers, Sequences, FiniteSets, TLC

(* ------------------------------ bounds --------------------------------- *)
\* URL pieces per URL
MaxChunks == 4
\* caption entries per transcript-service answer, characters per caption text
MaxEntries == 2
MaxTextLen == 2
\* candidates per completion response, content parts per candidate
MaxCands == 2
MaxParts == 2
\* concurrently served requests
NumReq == 2

(* ------------------------- Python str operations ----------------------- *)
\* the Python value None where a str is expected
NoneStr == <<"<None>">>

\* index of the first occurrence of sub in s, 0 when there is none
Find(s, sub) ==
    LET hits == {i \in 1..(Len(s) - Len(sub) + 1) :
                    SubSeq(s, i, i + Len(sub) - 1) = sub}
    IN  IF hits = {} THEN 0 ELSE CHOOSE i \in hits : \A j \in hits : i <= j

\* sub in s
Contains(s, sub) == Find(s, sub) # 0

\* s.split(sep): the pieces between the non-overlapping occurrences of sep,
\* scanned left to right
RECURSIVE Split(_, _)
Split(s, sep) ==
    LET i == Find(s, sep)
    IN  IF i = 0 THEN <<s>>
        ELSE <<SubSeq(s, 1, i - 1)>> \o Split(SubSeq(s, i + Len(sep), Len(s)), sep)

\* s.rstrip(c): every trailing c removed
RECURSIVE RStrip(_, _)
RStrip(s, c) ==
    IF Len(s) > 0 /\ s[Len(s)] = c THEN RStrip(SubSeq(s, 1, Len(s) - 1), c) ELSE s

\* the characters str.strip() removes that caption texts are built from here
Whitespace == {" ", "\n", "\t", "\r"}

RECURSIVE LStripWs(_)
LStripWs(s) ==
    IF Len(s) > 0 /\ s[1] \in Whitespace THEN LStripWs(Tail(s)) ELSE s

RECURSIVE RStripWs(_)
RStripWs(s) ==
    IF Len(s) > 0 /\ s[Len(s)] \in Whitespace
    THEN RStripWs(SubSeq(s, 1, Len(s) - 1)) ELSE s

\* s.strip()
Strip(s) == LStripWs(RStripWs(s))

\* sep.join(parts)
RECURSIVE Join(_, _)
Join(sep, parts) ==
    IF Len(parts) = 0 THEN <<>>
    ELSE IF Len(parts) = 1 THEN parts[1]
    ELSE parts[1] \o sep \o Join(sep, Tail(parts))

\* the concatenation of a sequence of strings
Cat(parts) == Join(<<>>, parts)

\* all sequences over S of length at most n
RECURSIVE SeqsUpTo(_, _)
SeqsUpTo(S, n) ==
    IF n = 0 THEN {<<>>}
    ELSE LET shorter == SeqsUpTo(S, n - 1)
         IN  shorter \cup {Append(p, x) : p \in shorter, x \in S}

(* ----------------------------- string literals ------------------------- *)
WatchMarker == <<"y","o","u","t","u","b","e",".","c","o","m","/",
                 "w","a","t","c","h","?","v","=">>
BareWatch   == <<"w","a","t","c","h","?","v","=">>
VEq         == <<"v","=">>
Amp         == <<"&">>
Slash       == <<"/">>
YoutuBe     == <<"y","o","u","t","u",".","b","e">>
ShortMarker == YoutuBe \o Slash
LetterA     == <<"a">>

\* the pieces URLs are built from
Chunks == {WatchMarker, BareWatch, VEq, Amp, Slash, YoutuBe, LetterA}

URLsUpTo(n) == {Cat(p) : p \in SeqsUpTo(Chunks, n)}

(* --------------------------- extract_youtube_id ------------------------ *)
\* a returned value, or the exception raised
Return(v) == [raised |-> "", value |-> v]
Raise(e)  == [raised |-> e, value |-> NoneStr]
\* no outcome yet
Pending   == [raised |-> "<pending>", value |-> NoneStr]

Last(seq) == seq[Len(seq)]

\* mutant: the trailing slash is not stripped before taking the last segment
extract_youtube_id_no_rstrip(u) ==
    IF Contains(u, WatchMarker)
    THEN Return(Split(Split(u, VEq)[2], Amp)[1])
    ELSE IF Contains(u, ShortMarker)
    THEN Return(Last(Split(u, Slash)))
    ELSE Raise("ValueError")

\* mutant: the short form is recognised by its host name alone
extract_youtube_id_loose_host(u) ==
    IF Contains(u, WatchMarker)
    THEN Return(Split(Split(u, VEq)[2], Amp)[1])
    ELSE IF Contains(u, YoutuBe)
    THEN Return(Last(Split(RStrip(u, "/"), Slash)))
    ELSE Raise("ValueError")

extract_youtube_id(u) ==
    IF Contains(u, WatchMarker)
    THEN Return(Split(Split(u, VEq)[2], Amp)[1])
    ELSE IF Contains(u, ShortMarker)
    THEN Return(Last(Split(RStrip(u, "/"), Slash)))
    ELSE Raise("ValueError")

(* ------------------------- the transcript service ---------------------- *)
TextChars == {"a", " ", "\n"}

\* errors YouTubeTranscriptApi.fetch raises, all of them Exceptions
ServiceErrors == {"TranscriptsDisabled", "VideoUnavailable", "RequestBlocked",
                  "ConnectionError"}

\* what ytt_api.fetch(video_id).to_raw_data() can do: raise, or return at
\* most n caption entries with texts of at most m characters
TranscriptOutcomes(n, m) ==
    {Raise(e) : e \in ServiceErrors}
        \cup {Return(es) : es \in SeqsUpTo({[text |-> t] : t \in SeqsUpTo(TextChars, m)}, n)}

(* ------------------------ fetch_youtube_transcript --------------------- *)
Texts(entries) == [i \in 1..Len(entries) |-> entries[i].text]

\* mutant: the fragments are concatenated without a separator
fetch_youtube_transcript_no_sep(outcome) ==
    IF outcome.raised # "" THEN Return(NoneStr)
    ELSE LET all_text == Join(<<>>, Texts(outcome.value))
         IN  IF Strip(all_text) # <<>> THEN Return(all_text) ELSE Return(NoneStr)

\* mutant: only the empty string counts as no transcript
fetch_youtube_transcript_no_strip(outcome) ==
    IF outcome.raised # "" THEN Return(NoneStr)
    ELSE LET all_text == Join(<<" ">>, Texts(outcome.value))
         IN  IF all_text # <<>> THEN Return(all_text) ELSE Return(NoneStr)

fetch_youtube_transcript(outcome) ==
    IF outcome.raised # "" THEN Return(NoneStr)
    ELSE LET all_text == Join(<<" ">>, Texts(outcome.value))
         IN  IF Strip(all_text) # <<>> THEN Return(all_text) ELSE Return(NoneStr)

(* ------------------------- the completion service --------------------- *)
\* texts a content part can carry; the second is not the JSON asked for
SummaryTexts == {"{\"Topic name\":\"X\",\"Topic summary\":\"Y\"}", "no json here"}

\* errors client.models.generate_content raises
CompletionErrors == {"APIError", "ConnectionError"}

\* a response of at most c candidates, each with at most p content parts
Responses(c, p) ==
    {[candidates |-> cs] :
        cs \in SeqsUpTo({[content |-> [parts |-> ps]] :
                            ps \in SeqsUpTo({[text |-> t] : t \in SummaryTexts}, p)}, c)}

CompletionOutcomes(c, p) ==
    {Raise(e) : e \in CompletionErrors} \cup {Return(resp) : resp \in Responses(c, p)}

(* ------------------- summarize_transcript_with_gemini ------------------ *)
\* os.getenv("GEMINI_API_KEY") when the variable is not set
Unset == "<unset>"
Credentials == {Unset, "", "secret-key"}

\* mutant: only an unset variable counts as missing
CredentialMissing_unset_only(key) == key = Unset

\* not api_key
CredentialMissing(key) == key = Unset \/ key = ""

PromptHead == <<"Based on the following transcription please give me the summary in a json format like this:\n{\n   \"Topic name\" : \"name of the topic\",\n   \"Topic summary\" : \"Summary of the topic\"\n}\nTranscription:\n">>

\* the f-string of lines 49-56
BuildPrompt(text) == PromptHead \o text \o <<"\n">>

\* mutant: the last candidate's last part is taken
FirstText_last(outcome) ==
    IF outcome.raised # "" THEN Raise(outcome.raised)
    ELSE LET cands == outcome.value.candidates
         IN  IF Len(cands) = 0 THEN Raise("IndexError")
             ELSE LET parts == cands[Len(cands)].content.parts
                  IN  IF Len(parts) = 0 THEN Raise("IndexError")
                      ELSE Return(parts[Len(parts)].text)

\* response.candidates[0].content.parts[0].text, of what generate_content did
FirstText(outcome) ==
    IF outcome.raised # "" THEN Raise(outcome.raised)
    ELSE LET cands == outcome.value.candidates
         IN  IF Len(cands) = 0 THEN Raise("IndexError")
             ELSE LET parts == cands[1].content.parts
                  IN  IF Len(parts) = 0 THEN Raise("IndexError")
                      ELSE Return(parts[1].text)

(* ------------------------------- state --------------------------------- *)
VARIABLES
    in_url,     \* the parser on its own: its argument,
    out_id,     \*   its outcome,
    parsed,     \*   and whether it has run
    svc_result, \* the fetcher on its own: what the transcript service did,
    out_text,   \*   the fetcher's outcome,
    fetched,    \*   and whether it has run
    api_key,    \* GEMINI_API_KEY in the process environment
    pc,         \* per request: where get_summary stands
    url,        \* per request: the url query parameter
    video_id,   \* per request: get_summary's video_id
    transcript, \* per request: get_summary's transcript
    prompt,     \* per request: the prompt sent to the completion service
    cresult,    \* per request: what the completion service did
    summary,    \* per request: get_summary's summary
    response,   \* per request: the payload get_summary returned
    failure,    \* per request: the exception that left get_summary
    tcalls,     \* per request: calls made to the transcript service
    ccalls      \* per request: calls made to the completion service

pvars == <<in_url, out_id, parsed>>
fvars == <<svc_result, out_text, fetched>>
hvars == <<api_key, pc, url, video_id, transcript, prompt, cresult, summary,
           response, failure, tcalls, ccalls>>
vars == <<in_url, out_id, parsed, svc_result, out_text, fetched, api_key, pc,
          url, video_id, transcript, prompt, cresult, summary, response,
          failure, tcalls, ccalls>>

Requests == 1..NumReq

NoResponse == [none |-> TRUE]
NoSummary == "<None>"

ParseIdle == in_url = <<>> /\ out_id = Pending /\ parsed = FALSE
FetchIdle == svc_result = Return(<<>>) /\ out_text = Pending /\ fetched = FALSE
HandlerIdle ==
    /\ pc = [r \in Requests |-> "Idle"]
    /\ url = [r \in Requests |-> <<>>]
    /\ video_id = [r \in Requests |-> NoneStr]
    /\ transcript = [r \in Requests |-> NoneStr]
    /\ prompt = [r \in Requests |-> NoneStr]
    /\ cresult = [r \in Requests |-> Pending]
    /\ summary = [r \in Requests |-> NoSummary]
    /\ response = [r \in Requests |-> NoResponse]
    /\ failure = [r \in Requests |-> ""]
    /\ tcalls = [r \in Requests |-> 0]
    /\ ccalls = [r \in Requests |-> 0]

(* -------------------- the parser on its own ---------------------------- *)
InitParse ==
    /\ in_url \in URLsUpTo(MaxChunks)
    /\ out_id = Pending
    /\ parsed = FALSE
    /\ FetchIdle
    /\ api_key = Unset
    /\ HandlerIdle

Extract ==
    /\ ~parsed
    /\ out_id' = extract_youtube_id(in_url)
    /\ parsed' = TRUE
    /\ UNCHANGED <<in_url, fvars, hvars>>

NextParse == Extract

SpecParse == InitParse /\ [][NextParse]_vars

(* -------------------- the fetcher on its own --------------------------- *)
InitFetch ==
    /\ svc_result \in TranscriptOutcomes(MaxEntries, MaxTextLen)
    /\ out_text = Pending
    /\ fetched = FALSE
    /\ ParseIdle
    /\ api_key = Unset
    /\ HandlerIdle

Fetch ==
    /\ ~fetched
    /\ out_text' = fetch_youtube_transcript(svc_result)
    /\ fetched' = TRUE
    /\ UNCHANGED <<svc_result, pvars, hvars>>

NextFetch == Fetch

SpecFetch == InitFetch /\ [][NextFetch]_vars

(* ----------------------------- get_summary ----------------------------- *)
InvalidUrlPayload == [error |-> "Invalid YouTube URL."]
NoTranscriptPayload == [error |-> "Transcript not found or not available for this video."]

\* mutant: only the empty string is taken for no transcript
Truthy_not_empty(x) == x # <<>>

\* bool(x) of an Optional[str]
Truthy(x) == x # NoneStr /\ x # <<>>

\* an exception leaves get_summary
Propagate(r, e) ==
    /\ pc' = [pc EXCEPT ![r] = "Error"]
    /\ failure' = [failure EXCEPT ![r] = e]
    /\ UNCHANGED response

\* get_summary returns a payload
Reply(r, payload) ==
    /\ pc' = [pc EXCEPT ![r] = "Responded"]
    /\ response' = [response EXCEPT ![r] = payload]
    /\ UNCHANGED failure

\* get_summary goes on to its next position
Goto(r, label) ==
    /\ pc' = [pc EXCEPT ![r] = label]
    /\ UNCHANGED <<response, failure>>

\* the framework calls get_summary(url) for a request
Arrive(r, urls) ==
    /\ pc[r] = "Idle"
    /\ \E u \in urls : url' = [url EXCEPT ![r] = u]
    /\ Goto(r, "Start")
    /\ UNCHANGED <<pvars, fvars, api_key, video_id, transcript, prompt, cresult,
                   summary, tcalls, ccalls>>

\* lines 70-73: parse the URL; ValueError becomes the error payload
ParseURL(r) ==
    /\ pc[r] = "Start"
    /\ LET res == extract_youtube_id(url[r])
       IN  IF res.raised = ""
           THEN /\ video_id' = [video_id EXCEPT ![r] = res.value]
                /\ Goto(r, "ParsedURL")
           ELSE IF res.raised = "ValueError"
           THEN /\ Reply(r, InvalidUrlPayload)
                /\ UNCHANGED video_id
           ELSE /\ Propagate(r, res.raised)
                /\ UNCHANGED video_id
    /\ UNCHANGED <<pvars, fvars, api_key, url, transcript, prompt, cresult,
                   summary, tcalls, ccalls>>

\* lines 75, 32-33: the fetcher calls the transcript service with video_id
FetchCall(r) ==
    /\ pc[r] = "ParsedURL"
    /\ tcalls' = [tcalls EXCEPT ![r] = @ + 1]
    /\ Goto(r, "AwaitTranscript")
    /\ UNCHANGED <<pvars, fvars, api_key, url, video_id, transcript, prompt,
                   cresult, summary, ccalls>>

\* lines 33-37, 75-76, 79-80: the service answers, the fetcher returns, and
\* get_summary either goes on or replies that there is no transcript
FetchReturn(r, outcomes) ==
    /\ pc[r] = "AwaitTranscript"
    /\ \E o \in outcomes :
          LET res == fetch_youtube_transcript(o)
          IN  IF res.raised # ""
              THEN /\ Propagate(r, res.raised)
                   /\ UNCHANGED transcript
              ELSE /\ transcript' = [transcript EXCEPT ![r] = res.value]
                   /\ IF Truthy(res.value)
                      THEN Goto(r, "GotTranscript")
                      ELSE Reply(r, NoTranscriptPayload)
    /\ UNCHANGED <<pvars, fvars, api_key, url, video_id, prompt, cresult,
                   summary, tcalls, ccalls>>

\* lines 77, 43-63: the summarizer reads the credential, raises when it is
\* missing, and otherwise sends the prompt to the completion service
SummarizeCall(r) ==
    /\ pc[r] = "GotTranscript"
    /\ IF CredentialMissing(api_key)
       THEN /\ Propagate(r, "EnvironmentError")
            /\ UNCHANGED <<prompt, ccalls>>
       ELSE /\ prompt' = [prompt EXCEPT ![r] = BuildPrompt(transcript[r])]
            /\ ccalls' = [ccalls EXCEPT ![r] = @ + 1]
            /\ Goto(r, "AwaitCompletion")
    /\ UNCHANGED <<pvars, fvars, api_key, url, video_id, transcript, cresult,
                   summary, tcalls>>

\* mutant: get_summary catches what the summarizer raises and replies with it
SummarizeReturn_caught(r, outcomes) ==
    /\ pc[r] = "AwaitCompletion"
    /\ \E o \in outcomes :
          LET res == FirstText(o)
          IN  /\ cresult' = [cresult EXCEPT ![r] = o]
              /\ IF res.raised # ""
                 THEN /\ Reply(r, [error |-> res.raised])
                      /\ UNCHANGED summary
                 ELSE /\ summary' = [summary EXCEPT ![r] = res.value]
                      /\ Goto(r, "Summarized")
    /\ UNCHANGED <<pvars, fvars, api_key, url, video_id, transcript, prompt,
                   tcalls, ccalls>>

\* mutant: a failed completion call is tried again
SummarizeReturn_retry(r, outcomes) ==
    /\ pc[r] = "AwaitCompletion"
    /\ \E o \in outcomes :
          LET res == FirstText(o)
          IN  /\ cresult' = [cresult EXCEPT ![r] = o]
              /\ IF res.raised # ""
                 THEN /\ Goto(r, "GotTranscript")
                      /\ UNCHANGED summary
                 ELSE /\ summary' = [summary EXCEPT ![r] = res.value]
                      /\ Goto(r, "Summarized")
    /\ UNCHANGED <<pvars, fvars, api_key, url, video_id, transcript, prompt,
                   tcalls, ccalls>>

\* lines 63-64, 77: the completion service answers; the summarizer returns
\* the first text or its exception leaves get_summary
SummarizeReturn(r, outcomes) ==
    /\ pc[r] = "AwaitCompletion"
    /\ \E o \in outcomes :
          LET res == FirstText(o)
          IN  /\ cresult' = [cresult EXCEPT ![r] = o]
              /\ IF res.raised # ""
                 THEN /\ Propagate(r, res.raised)
                      /\ UNCHANGED summary
                 ELSE /\ summary' = [summary EXCEPT ![r] = res.value]
                      /\ Goto(r, "Summarized")
    /\ UNCHANGED <<pvars, fvars, api_key, url, video_id, transcript, prompt,
                   tcalls, ccalls>>

\* line 78
Respond(r) ==
    /\ pc[r] = "Summarized"
    /\ Reply(r, [summary |-> summary[r]])
    /\ UNCHANGED <<pvars, fvars, api_key, url, video_id, transcript, prompt,
                   cresult, summary, tcalls, ccalls>>

InitHandler ==
    /\ ParseIdle
    /\ FetchIdle
    /\ api_key \in Credentials
    /\ HandlerIdle

\* a URL of each kind: the long form, the short form, neither
SmallURLs == {Cat(<<WatchMarker, LetterA, Amp, LetterA>>),
              Cat(<<YoutuBe, Slash, LetterA>>),
              Cat(<<BareWatch, LetterA>>)}

\* a transcript-service answer of each kind: an error, no entries, blank
\* entries, entries with text
SmallTranscripts ==
    {Raise("VideoUnavailable"),
     Return(<<>>),
     Return(<<[text |-> <<" ">>], [text |-> <<"\n">>]>>),
     Return(<<[text |-> <<"a">>], [text |-> <<" ", "a">>]>>)}

\* a completion-service answer of each kind: an error, no candidates, a
\* candidate without parts, a candidate with a text
SmallCompletions ==
    {Raise("APIError"),
     Return([candidates |-> <<>>]),
     Return([candidates |-> <<[content |-> [parts |-> <<>>]]>>]),
     Return([candidates |-> <<[content |-> [parts |-> <<[text |-> "no json here"]>>]]>>])}

AllURLs == URLsUpTo(MaxChunks)
AllCompletions == CompletionOutcomes(MaxCands, MaxParts)

\* one request, every URL
NextReq ==
    \/ Arrive(1, AllURLs)
    \/ ParseURL(1)
    \/ FetchCall(1)
    \/ FetchReturn(1, SmallTranscripts)
    \/ SummarizeCall(1)
    \/ SummarizeReturn(1, SmallCompletions)
    \/ Respond(1)

SpecReq == InitHandler /\ [][NextReq]_vars

\* one request, every answer of the completion service
NextSum ==
    \/ Arrive(1, SmallURLs)
    \/ ParseURL(1)
    \/ FetchCall(1)
    \/ FetchReturn(1, SmallTranscripts)
    \/ SummarizeCall(1)
    \/ SummarizeReturn(1, AllCompletions)
    \/ Respond(1)

SpecSum == InitHandler /\ [][NextSum]_vars

\* requests served side by side
Next ==
    \E r \in Requests :
        \/ Arrive(r, SmallURLs)
        \/ ParseURL(r)
        \/ FetchCall(r)
        \/ FetchReturn(r, SmallTranscripts)
        \/ SummarizeCall(r)
        \/ SummarizeReturn(r, SmallCompletions)
        \/ Respond(r)

Spec == InitHandler /\ [][Next]_vars

(* ------------------------- properties: parser -------------------------- *)
\* the identifier that follows the occurrence of marker at index i: the text
\* after it up to the next "&" or the end
IdAfter(u, marker, i) ==
    LET rest == SubSeq(u, i + Len(marker), Len(u))
        j    == Find(rest, Amp)
    IN  IF j = 0 THEN rest ELSE SubSeq(rest, 1, j - 1)

Occurrences(u, marker) ==
    {i \in 1..(Len(u) - Len(marker) + 1) : SubSeq(u, i, i + Len(marker) - 1) = marker}

ShortIds(u) ==
    {id \in {SubSeq(u, i, j) : i \in 1..Len(u), j \in 1..Len(u)} :
        /\ id # <<>>
        /\ ~Contains(id, Slash)
        /\ \/ /\ Len(u) >= Len(ShortMarker \o id)
              /\ SubSeq(u, Len(u) - Len(ShortMarker \o id) + 1, Len(u)) = ShortMarker \o id
           \/ /\ Len(u) >= Len(ShortMarker \o id \o Slash)
              /\ SubSeq(u, Len(u) - Len(ShortMarker \o id \o Slash) + 1, Len(u))
                     = ShortMarker \o id \o Slash}

\* C2: a URL without "watch?v=" that ends with "youtu.be/ID" or
\* "youtu.be/ID/" (ID non-empty, no "/") parses to exactly ID.
C2_ShortIdReturned ==
    (parsed /\ ~Contains(in_url, BareWatch)) =>
        \A id \in ShortIds(in_url) : out_id = Return(id)

\* a parsed URL ending with "youtu.be/a/", the trailing slash stripped
C2_Witness ==
    /\ parsed
    /\ ~Contains(in_url, BareWatch)
    /\ ShortIds(in_url) = {LetterA}
    /\ Last(in_url) = "/"
    /\ out_id = Return(LetterA)

(* ------------------------- properties: fetcher ------------------------- *)
NonBlank(s) == \E i \in 1..Len(s) : s[i] \notin Whitespace

RECURSIVE LenBefore(_, _)
\* the length of the first k fragments and the k separators after them
LenBefore(entries, k) ==
    IF k = 0 THEN 0 ELSE LenBefore(entries, k - 1) + Len(entries[k].text) + 1

\* s is the fragments of entries, in order, with one space between neighbours
SpaceJoined(s, entries) ==
    LET n == Len(entries)
    IN  /\ n > 0
        /\ Len(s) = LenBefore(entries, n) - 1
        /\ \A k \in 1..n :
              LET from == LenBefore(entries, k - 1)
              IN  /\ SubSeq(s, from + 1, from + Len(entries[k].text)) = entries[k].text
                  /\ k < n => s[from + Len(entries[k].text) + 1] = " "

\* C4: when the service returns entries with some non-whitespace text, the
\* fetcher returns exactly the fragments in order joined by single spaces.
C4_JoinedVerbatim ==
    (/\ fetched
     /\ svc_result.raised = ""
     /\ \E k \in 1..Len(svc_result.value) : NonBlank(svc_result.value[k].text))
        => /\ out_text.raised = ""
           /\ SpaceJoined(out_text.value, svc_result.value)

\* two fragments, one with surrounding whitespace, returned untrimmed
C4_Witness ==
    /\ fetched
    /\ svc_result = Return(<<[text |-> <<" ", "a">>], [text |-> <<"a", " ">>]>>)
    /\ out_text = Return(<<" ", "a", " ", "a", " ">>)

\* C5: an error from the service, an empty list, or entries whose text is
\* empty or whitespace-only all give None, and nothing is raised.
C5_NotAvailable ==
    (/\ fetched
     /\ \/ svc_result.raised # ""
        \/ \A k \in 1..Len(svc_result.value) : ~NonBlank(svc_result.value[k].text))
        => out_text = Return(NoneStr)

\* the service raised, and the fetcher returned None
C5_Witness ==
    /\ fetched
    /\ svc_result.raised \in ServiceErrors
    /\ out_text = Return(NoneStr)

(* ------------------------- properties: handler ------------------------- *)
\* get_summary has not yet left the parsing step
BeforeParse(r) == pc[r] \in {"Idle", "Start"}

\* C3: a URL with neither "watch?v=" nor "youtu.be/" makes the parser raise
\* ValueError and get_summary reply {"error": "Invalid YouTube URL."} and
\* stop there, no service called, whatever the credential.
C3_InvalidUrlRejected ==
    \A r \in Requests :
        (/\ ~BeforeParse(r)
         /\ ~Contains(url[r], BareWatch)
         /\ ~Contains(url[r], ShortMarker))
            => /\ extract_youtube_id(url[r]) = Raise("ValueError")
               /\ pc[r] = "Responded"
               /\ response[r] = [error |-> "Invalid YouTube URL."]
               /\ failure[r] = ""
               /\ tcalls[r] = 0
               /\ ccalls[r] = 0

\* "youtu.be" without its slash is rejected though a credential is configured
C3_Witness ==
    /\ api_key = "secret-key"
    /\ url[1] = YoutuBe
    /\ pc[1] = "Responded"
    /\ response[1] = [error |-> "Invalid YouTube URL."]

\* the summarizer has been entered by request r and has gone past line 44
Summarizing(r) == Truthy(transcript[r]) /\ pc[r] # "GotTranscript"

\* C6: with GEMINI_API_KEY unset or empty the summarizer raises at once and
\* the completion service is never called.
C6_MissingCredential ==
    api_key \in {Unset, ""} =>
        \A r \in Requests :
            /\ ccalls[r] = 0
            /\ prompt[r] = NoneStr
            /\ cresult[r] = Pending
            /\ Summarizing(r) => (pc[r] = "Error" /\ failure[r] = "EnvironmentError")

\* the summarizer was entered with an empty credential and raised
C6_Witness ==
    /\ api_key = ""
    /\ Truthy(transcript[1])
    /\ pc[1] = "Error"
    /\ failure[1] = "EnvironmentError"
    /\ ccalls[1] = 0

\* the transcript call of request r has returned
FetchReturned(r) == tcalls[r] > 0 /\ pc[r] # "AwaitTranscript"

\* C7: when the URL parses and the fetcher returns None, get_summary replies
\* with the transcript error payload and stops; the summarizer is never
\* entered, so neither the credential nor the completion service matters.
C7_TranscriptUnavailable ==
    \A r \in Requests :
        (FetchReturned(r) /\ transcript[r] = NoneStr)
            => /\ pc[r] = "Responded"
               /\ response[r] =
                    [error |-> "Transcript not found or not available for this video."]
               /\ failure[r] = ""
               /\ ccalls[r] = 0
               /\ prompt[r] = NoneStr

\* no transcript and no credential: the reply is the transcript error
C7_Witness ==
    /\ api_key = Unset
    /\ FetchReturned(1)
    /\ transcript[1] = NoneStr
    /\ pc[1] = "Responded"
    /\ response[1] = [error |-> "Transcript not found or not available for this video."]

\* the completion service's answer cannot be unpacked, or it raised
CompletionFailed(o) ==
    \/ o.raised # ""
    \/ Len(o.value.candidates) = 0
    \/ Len(o.value.candidates[1].content.parts) = 0

\* the exception a failed completion leaves in the summarizer
CompletionFailure(o) == IF o.raised # "" THEN o.raised ELSE "IndexError"

\* C8: a failure raised while summarizing leaves get_summary unchanged, with
\* neither a summary nor an error payload; error payloads come only from an
\* invalid URL or a missing transcript.
C8_SummarizerFailurePropagates ==
    \A r \in Requests :
        /\ (Summarizing(r) /\ api_key \in {Unset, ""})
              => (pc[r] = "Error" /\ failure[r] = "EnvironmentError"
                  /\ response[r] = NoResponse)
        /\ (cresult[r] # Pending /\ CompletionFailed(cresult[r]))
              => (pc[r] = "Error" /\ failure[r] = CompletionFailure(cresult[r])
                  /\ response[r] = NoResponse)
        /\ pc[r] = "Error" => Summarizing(r)
        /\ "error" \in DOMAIN response[r]
              => /\ ~Summarizing(r)
                 /\ \/ (response[r].error = "Invalid YouTube URL." /\ tcalls[r] = 0)
                    \/ (response[r].error =
                            "Transcript not found or not available for this video."
                        /\ transcript[r] = NoneStr /\ FetchReturned(r))

\* the completion service raised and the request ended with that exception
C8_Witness ==
    /\ cresult[1] = Raise("APIError")
    /\ pc[1] = "Error"
    /\ failure[1] = "APIError"
    /\ response[1] = NoResponse

\* C9: with a parsed URL, a non-blank transcript, a credential and a response
\* from the completion service, get_summary replies {"summary": T} and
\* nothing else, T being the first candidate's first part's text as it came.
C9_SummaryVerbatim ==
    \A r \in Requests :
        (cresult[r] # Pending /\ ~CompletionFailed(cresult[r]))
            => LET T == cresult[r].value.candidates[1].content.parts[1].text
               IN  /\ NonBlank(transcript[r])
                   /\ api_key \notin {Unset, ""}
                   /\ pc[r] \in {"Summarized", "Responded"}
                   /\ summary[r] = T
                   /\ failure[r] = ""
                   /\ pc[r] = "Responded" => response[r] = [summary |-> T]

\* a reply whose text is not the asked-for JSON and differs from the texts
\* of the other part and the other candidate
C9_Witness ==
    LET json == "{\"Topic name\":\"X\",\"Topic summary\":\"Y\"}"
        first == [content |-> [parts |-> <<[text |-> "no json here"], [text |-> json]>>]]
        second == [content |-> [parts |-> <<[text |-> json]>>]]
    IN  /\ pc[1] = "Responded"
        /\ cresult[1] = Return([candidates |-> <<first, second>>])
        /\ response[1] = [summary |-> "no json here"]

(* ------------------------ properties: concurrency ---------------------- *)
Rank(label) ==
    CASE label = "Idle"            -> 0
      [] label = "Start"           -> 1
      [] label = "ParsedURL"       -> 2
      [] label = "AwaitTranscript" -> 3
      [] label = "GotTranscript"   -> 4
      [] label = "AwaitCompletion" -> 5
      [] label = "Summarized"      -> 6
      [] label = "Responded"       -> 7
      [] label = "Error"           -> 7

\* everything get_summary holds for request r
Local(r) == <<pc[r], url[r], video_id[r], transcript[r], prompt[r], cresult[r],
              summary[r], response[r], failure[r], tcalls[r], ccalls[r]>>

CallsInOrder ==
    \A r \in Requests :
        /\ tcalls[r] <= 1
        /\ ccalls[r] <= 1
        /\ tcalls[r] = 1 => (/\ extract_youtube_id(url[r]).raised = ""
                             /\ video_id[r] = extract_youtube_id(url[r]).value
                             /\ Rank(pc[r]) >= Rank("AwaitTranscript"))
        /\ tcalls[r] = 0 => Rank(pc[r]) <= Rank("ParsedURL") \/ pc[r] = "Responded"
        /\ ccalls[r] = 1 => (/\ FetchReturned(r)
                             /\ NonBlank(transcript[r])
                             /\ Rank(pc[r]) >= Rank("AwaitCompletion"))

ForwardOnly ==
    \A r \in Requests :
        /\ Rank(pc'[r]) >= Rank(pc[r])
        /\ pc[r] \in {"Responded", "Error"} => Local(r)' = Local(r)
        /\ tcalls'[r] >= tcalls[r]
        /\ ccalls'[r] >= ccalls[r]
        /\ Local(r)' # Local(r) => \A q \in Requests \ {r} : Local(q)' = Local(q)

\* C10: however concurrently served requests interleave, each one only moves
\* forward, calls each service at most once, calls the transcript service
\* only after its own URL parsed and the completion service only after its
\* own transcript call returned non-blank text, and touches no other request.
C10_SequentialPerRequest == [](CallsInOrder) /\ [][ForwardOnly]_vars

\* one request has been answered with a summary while another one's
\* transcript call is still in flight
C10_Witness ==
    /\ pc[1] = "Responded" /\ tcalls[1] = 1 /\ ccalls[1] = 1
    /\ "summary" \in DOMAIN response[1]
    /\ pc[2] = "AwaitTranscript" /\ tcalls[2] = 1 /\ ccalls[2] = 0

====
